---- MODULE Spec2Model ----
(***************************************************************************)
(* State-machine model of the two scraper variants of this repository:     *)
(*   "js" : src/scraper.js          (press "s" to start, "s" again to stop)*)
(*   "ts" : src/unnamed/part_000    (TypeScript, press F9 to start)        *)
(* One step of the model is the code between two awaits.  The keyboard     *)
(* listener may run between any two steps.  Every DOM call that can reject *)
(* has a "throws" outcome, limited by the fault budget MaxFaults.          *)
(*                                                                         *)
(* Texts are sequences of one-character strings.  A nullable value is      *)
(* <<>> (null) or <<v>> (the value v).                                     *)
(***************************************************************************)
EXTENDS Integers, Sequences, FiniteSets, TLC

\* ------------------------------------------------------------------ bounds
\* Largest number of nodes matching the item selector on a page.
MaxItems == 3
\* Largest number of DOM calls that reject during one run.
MaxFaults == 1

\* ------------------------------------------------------------------ texts
Null == <<>>
Some(v) == <<v>>

IsSpace(c) == c = " "

\* String.prototype.trim
RECURSIVE TrimLeft(_)
TrimLeft(t) ==
  IF t # <<>> /\ IsSpace(Head(t)) THEN TrimLeft(Tail(t)) ELSE t

RECURSIVE TrimRight(_)
TrimRight(t) ==
  IF t # <<>> /\ IsSpace(t[Len(t)]) THEN TrimRight(SubSeq(t, 1, Len(t) - 1)) ELSE t

Trim(t) == TrimRight(TrimLeft(t))

\* The delimiter ' · ' of companyInfo.split(' · ')
Delimiter == <<" ", "·", " ">>

StartsWith(t, d) == Len(t) >= Len(d) /\ SubSeq(t, 1, Len(d)) = d

\* String.prototype.split(d): every part between occurrences of d, in order.
RECURSIVE SplitFrom(_, _, _)
SplitFrom(t, d, cur) ==
  IF t = <<>> THEN <<cur>>
  ELSE IF StartsWith(t, d)
       THEN <<cur>> \o SplitFrom(SubSeq(t, Len(d) + 1, Len(t)), d, <<>>)
       ELSE SplitFrom(Tail(t), d, Append(cur, Head(t)))

Split(t, d) == SplitFrom(t, d, <<>>)

\* ------------------------------------------------------------ configuration
\* config.urls (scraper.js) / config.profiles (TypeScript variant)
Urls == <<"A", "B">>
NumUrls == Len(Urls)

\* ------------------------------------------------------------- page content
\* What the selectors find inside one item node: the role/title element (null
\* when the selector matches nothing), the texts of the detail elements and
\* the texts of the description/skills elements, all before trimming.
Kinds ==
  << [role    |-> Some(<<" ", "a", " ">>),
      details |-> << <<"a", " ", "·", " ", "b">>, <<"c">>, <<"d", " ">> >>,
      descs   |-> << <<"e">>, <<"f">> >>],
     [role    |-> Null,
      details |-> << <<"a">>, <<" ">>, <<"c">> >>,
      descs   |-> << <<"f">> >>],
     [role    |-> Some(<<"b">>),
      details |-> << <<"a", " ", "·", " ", "b", " ", "·", " ", "c">>, <<"c">>, <<"d">>, <<"e">> >>,
      descs   |-> << <<"e">>, <<"x">>, <<"f">> >>],
     [role    |-> Some(<<"c">>),
      details |-> << >>,
      descs   |-> << >>] >>
NumKinds == Len(Kinds)

\* The item nodes of a page in document order.  Node n (1-based) has the
\* nearest enclosing item node parent[n] (0: none); a parent precedes its
\* descendants in document order.
Forests(n) == { f \in [1..n -> 0..n] : \A k \in 1..n : f[k] < k }
Doms == UNION { Forests(n) : n \in 0..MaxItems }

VARIABLES
  variant,          \* "js" or "ts": which program runs
  loneItem,         \* the content of the item handed to the field mapping alone
  pc,               \* where main / scrapeExperience stands
  exitCode,         \* -1 while running, else the process exit status
  dom,              \* the item nodes of a loaded profile page (parent forest)
  faults,           \* number of DOM calls that rejected so far
  scraperStarted,   \* scraper.js:7
  scraperStopped,   \* scraper.js:8
  pages,            \* scraper.js:195, pages[url]: "none" | "ok" | "timeout"
  allResults,       \* scraper.js:304
  resultsFile,      \* results.json: Null until written
  url,              \* position of the loop over config.urls / config.profiles
  experienceItems,  \* the enumerated item nodes of the current section
  idx,              \* scraper.js:58 idx (0-based)
  experienceData,   \* scraper.js:65 the record being built
  experiences,      \* scraper.js:51
  raised,           \* TRUE when scrapeExperience ended by throwing
  threw,            \* history: <<idx, stage>> of the calls that rejected in this section (idx -1: before the items)
  sectionErr,       \* history: urls whose item enumeration rejected
  stopAt,           \* history: where the run stood when the stop flag was set
  scrapingEnabled,  \* part_000:41
  allExperienceData,\* part_000:372
  allEducationData, \* part_000:373
  outputFile,       \* the spreadsheet config.outputFile: Null until written
  tsExperienceData, \* part_000:109 experienceData, the list of one section
  tsRow,            \* part_000:158-177 jobTitle .. location of the item in hand
  origin,           \* history: the item (i) each row of tsExperienceData came from
  educationData     \* part_000:251

\* The variables only src/unnamed/part_000 uses.
tsOnly == << scrapingEnabled, allExperienceData, allEducationData, outputFile,
            tsExperienceData, tsRow, origin, educationData >>

\* The variables only src/scraper.js uses.
jsOnly == << scraperStarted, scraperStopped, pages, allResults, resultsFile,
            experienceData, experiences, sectionErr, stopAt >>

vars == << variant, loneItem, pc, exitCode, dom, faults, scraperStarted,
           scraperStopped, pages, allResults, resultsFile, url,
           experienceItems, idx, experienceData, experiences, raised, threw,
           sectionErr, stopAt, scrapingEnabled, allExperienceData,
           allEducationData, outputFile, tsExperienceData, tsRow, origin,
           educationData >>

\* ---------------------------------------------------------------- DOM reads
\* The content of item node n.
ContentOf(n) == Kinds[((n - 1) % NumKinds) + 1]

RECURSIVE Ancestors(_, _)
Ancestors(f, n) == IF f[n] = 0 THEN {} ELSE {f[n]} \cup Ancestors(f, f[n])

\* item.$$(selectors.experienceItem): the item nodes below node n.
Descendants(f, n) == { m \in DOMAIN f : n \in Ancestors(f, m) }

\* page.$$(selectors.experienceItem) on a page: all item nodes in document
\* order.  A page whose navigation failed shows no profile, hence no item.
PageItems(state) == IF state = "timeout" THEN <<>> ELSE dom

NoStop == [pc |-> "none", url |-> 0, idx |-> 0]

\* No item is handed to the field mapping alone: a run reads its items from dom.
NoItem == [role |-> Null, details |-> <<>>, descs |-> <<>>]

\* A DOM call may reject while the fault budget lasts.
CanFault == faults < MaxFaults

\* ======================================================================
\* src/scraper.js
\* ======================================================================

\* The fresh record of one item (scraper.js:65-75).
NewExperienceData(index) ==
  [index |-> index, role |-> Null, company |-> Null, position |-> Null,
   duration |-> Null, location |-> Null, description |-> Null,
   skills |-> Null, has_children |-> FALSE]

\* children.length > 1 (scraper.js:80)
HasChildren(children) == Cardinality(children) > 1

\* The loop of scraper.js:103-108 and 143-148: trimmed texts, empty ones dropped.
RECURSIVE ReadTexts(_)
ReadTexts(elems) ==
  IF elems = <<>> THEN <<>>
  ELSE LET text == Trim(Head(elems))
       IN  (IF text # <<>> THEN <<text>> ELSE <<>>) \o ReadTexts(Tail(elems))

\* scraper.js:112-133: company, position, duration and location by count.
CompanyAndDetails(rec, detailsText) ==
  LET r1 == IF Len(detailsText) >= 1
            THEN LET companyInfo == detailsText[1]
                     parts == Split(companyInfo, Delimiter)
                 IN  IF Len(parts) >= 2
                     THEN [rec EXCEPT !.company = Some(Trim(parts[1])),
                                      !.position = Some(Trim(parts[2]))]
                     ELSE [rec EXCEPT !.company = Some(companyInfo),
                                      !.position = Null]
            ELSE rec
      r2 == IF Len(detailsText) >= 2
            THEN [r1 EXCEPT !.duration = Some(detailsText[2])] ELSE r1
  IN  IF Len(detailsText) >= 3
      THEN [r2 EXCEPT !.location = Some(detailsText[3])] ELSE r2

\* scraper.js:152-166: description and skills by count.
SkillsAndDescription(rec, skillDescText) ==
  IF Len(skillDescText) = 0
  THEN [rec EXCEPT !.description = Null, !.skills = Null]
  ELSE IF Len(skillDescText) = 1
       THEN [rec EXCEPT !.description = Null, !.skills = Some(skillDescText[1])]
       ELSE [rec EXCEPT !.description = Some(skillDescText[1]),
                        !.skills = Some(skillDescText[Len(skillDescText)])]

\* Mutant of Push: only the index and the role of the record are kept.
Push_Bare(list, rec) == Append(list, [index |-> rec.index, role |-> rec.role])

\* Mutant of Push: the record is put in front.
Push_Front(list, rec) == <<rec>> \o list

\* experiences.push(experienceData) (scraper.js:171, 174)
Push(list, rec) == Append(list, rec)

\* Mutant of ProfileResult: the count is that of the items, not of the records.
ProfileResult_ItemCount(u, failed, exps) ==
  IF ~failed
  THEN [url |-> u, success |-> TRUE, experiences |-> exps,
        total_experiences |-> Len(experienceItems), error |-> Null]
  ELSE [url |-> u, success |-> FALSE, experiences |-> <<>>,
        total_experiences |-> 0, error |-> Some("message")]

\* The two results of scrapeProfile (scraper.js:237-252).
ProfileResult(u, failed, exps) ==
  IF ~failed
  THEN [url |-> u, success |-> TRUE, experiences |-> exps,
        total_experiences |-> Len(exps), error |-> Null]
  ELSE [url |-> u, success |-> FALSE, experiences |-> <<>>,
        total_experiences |-> 0, error |-> Some("message")]

\* process.exit(code): the process ends and its memory is gone (the
\* variables that lived in it go back to their initial values); the control
\* flags, the pages of the site and the files on disk stay as they are.
Exit(code) ==
  /\ pc' = "exit"
  /\ exitCode' = code
  /\ faults' = 0
  /\ pages' = [u \in 1..NumUrls |-> "none"]
  /\ allResults' = [total_profiles |-> NumUrls, profiles |-> <<>>]
  /\ url' = 1
  /\ experienceItems' = <<>>
  /\ idx' = 0
  /\ experienceData' = NewExperienceData(0)
  /\ experiences' = <<>>
  /\ raised' = FALSE
  /\ threw' = {}
  /\ sectionErr' = {}
  /\ stopAt' = NoStop
  /\ UNCHANGED << variant, loneItem, dom, scraperStarted, scraperStopped, resultsFile >>

\* main: loadConfig (scraper.js:275, 11-14).  A missing or malformed
\* config.json throws out of main; main().catch exits with status 1.
Main_LoadConfig ==
  /\ variant = "js" /\ pc = "loadConfig"
  /\ UNCHANGED tsOnly
  /\ \/ /\ pc' = "launch"
        /\ UNCHANGED << variant, loneItem, exitCode, dom, faults, scraperStarted,
                        scraperStopped, pages, allResults, resultsFile, url,
                        experienceItems, idx, experienceData, experiences,
                        raised, threw, sectionErr, stopAt >>
     \/ Exit(1)

\* launchBrowserAndLoadUrls: puppeteer.launch (scraper.js:186-192, 226-229,
\* 283-290).  A failed launch is rethrown and main exits with status 1.
Main_Launch ==
  /\ variant = "js" /\ pc = "launch"
  /\ UNCHANGED tsOnly
  /\ \/ /\ pc' = "loadUrls"
        /\ url' = 1
        /\ UNCHANGED << variant, loneItem, exitCode, dom, faults, scraperStarted,
                        scraperStopped, pages, allResults, resultsFile,
                        experienceItems, idx, experienceData, experiences,
                        raised, threw, sectionErr, stopAt >>
     \/ Exit(1)

\* One round of the loop of scraper.js:196-223.  "none": newPage or
\* setViewport threw and no page is stored; "timeout": goto failed, which is
\* caught at 210 and the page is stored all the same; "ok": the page loaded.
\* After the last url main installs the keyboard listener and waits.
LoadUrl ==
  /\ variant = "js" /\ pc = "loadUrls"
  /\ UNCHANGED tsOnly
  /\ \E outcome \in {"ok", "timeout", "none"} :
       pages' = [pages EXCEPT ![url] = outcome]
  /\ IF url < NumUrls
     THEN url' = url + 1 /\ pc' = pc
     ELSE url' = 1 /\ pc' = "waitForStart"
  /\ UNCHANGED << variant, loneItem, exitCode, dom, faults, scraperStarted,
                  scraperStopped, allResults, resultsFile, experienceItems,
                  idx, experienceData, experiences, raised, threw, sectionErr,
                  stopAt >>

\* The listener is installed and the process lives.
Listening == pc \notin {"loadConfig", "launch", "loadUrls", "exit", "done"}

\* Mutant of KeyS: a press of "s" after a stop resumes the run.
KeyS_Toggle ==
  /\ variant = "js" /\ Listening
  /\ UNCHANGED tsOnly
  /\ IF ~scraperStarted
     THEN scraperStarted' = TRUE /\ UNCHANGED << scraperStopped, stopAt >>
     ELSE /\ scraperStopped' = ~scraperStopped
          /\ stopAt' = IF scraperStopped THEN stopAt
                       ELSE [pc |-> pc, url |-> url, idx |-> idx]
          /\ UNCHANGED scraperStarted
  /\ UNCHANGED << variant, loneItem, pc, exitCode, dom, faults, pages, allResults,
                  resultsFile, url, experienceItems, idx, experienceData,
                  experiences, raised, threw, sectionErr >>

\* Mutant of KeyS: the first press of "s" stops, a later one starts.
KeyS_StopFirst ==
  /\ variant = "js" /\ Listening
  /\ UNCHANGED tsOnly
  /\ IF ~scraperStopped
     THEN /\ scraperStopped' = TRUE
          /\ stopAt' = [pc |-> pc, url |-> url, idx |-> idx]
          /\ UNCHANGED scraperStarted
     ELSE scraperStarted' = TRUE /\ UNCHANGED << scraperStopped, stopAt >>
  /\ UNCHANGED << variant, loneItem, pc, exitCode, dom, faults, pages, allResults,
                  resultsFile, url, experienceItems, idx, experienceData,
                  experiences, raised, threw, sectionErr >>

\* A press of "s" (scraper.js:31-41): the first one starts, every later one stops.
KeyS ==
  /\ variant = "js" /\ Listening
  /\ UNCHANGED tsOnly
  /\ IF ~scraperStarted
     THEN scraperStarted' = TRUE /\ UNCHANGED << scraperStopped, stopAt >>
     ELSE /\ scraperStopped' = TRUE
          /\ stopAt' = IF scraperStopped THEN stopAt
                       ELSE [pc |-> pc, url |-> url, idx |-> idx]
          /\ UNCHANGED scraperStarted
  /\ UNCHANGED << variant, loneItem, pc, exitCode, dom, faults, pages, allResults,
                  resultsFile, url, experienceItems, idx, experienceData,
                  experiences, raised, threw, sectionErr >>

\* Ctrl+C or Escape (scraper.js:42-44): process.exit().
KeyExit ==
  /\ variant = "js" /\ Listening
  /\ UNCHANGED tsOnly
  /\ Exit(0)

\* Mutant of WaitForStart: main does not wait for the start flag.
WaitForStart_NoGate ==
  /\ variant = "js" /\ pc = "waitForStart"
  /\ UNCHANGED tsOnly
  /\ allResults' = [total_profiles |-> NumUrls, profiles |-> <<>>]
  /\ url' = 1
  /\ pc' = "main_loop"
  /\ UNCHANGED << variant, loneItem, exitCode, dom, faults, scraperStarted,
                  scraperStopped, pages, resultsFile, experienceItems, idx,
                  experienceData, experiences, raised, threw, sectionErr, stopAt >>

\* waitForStart resolves once scraperStarted is seen (scraper.js:257-266,
\* 302-308); main then builds allResults.
WaitForStart ==
  /\ variant = "js" /\ pc = "waitForStart"
  /\ UNCHANGED tsOnly
  /\ scraperStarted
  /\ allResults' = [total_profiles |-> NumUrls, profiles |-> <<>>]
  /\ url' = 1
  /\ pc' = "main_loop"
  /\ UNCHANGED << variant, loneItem, exitCode, dom, faults, scraperStarted,
                  scraperStopped, pages, resultsFile, experienceItems, idx,
                  experienceData, experiences, raised, threw, sectionErr, stopAt >>

\* Mutant of Main_Loop: the stop flag is not polled before a target.
Main_Loop_NoPoll ==
  /\ variant = "js" /\ pc = "main_loop"
  /\ UNCHANGED tsOnly
  /\ IF url > NumUrls
     THEN pc' = "close" /\ UNCHANGED << url, experiences, raised, threw >>
     ELSE IF pages[url] = "none"
          THEN url' = url + 1 /\ UNCHANGED << pc, experiences, raised, threw >>
          ELSE /\ pc' = "enumerate"
               /\ experiences' = <<>>
               /\ raised' = FALSE
               /\ threw' = {}
               /\ UNCHANGED url
  /\ UNCHANGED << variant, loneItem, exitCode, dom, faults, scraperStarted,
                  scraperStopped, pages, allResults, resultsFile,
                  experienceItems, idx, experienceData, sectionErr, stopAt >>

\* The head of the loop over config.urls (scraper.js:311-323) up to the call
\* of scrapeProfile, which enters scrapeExperience (scraper.js:49-55).
Main_Loop ==
  /\ variant = "js" /\ pc = "main_loop"
  /\ UNCHANGED tsOnly
  /\ IF url > NumUrls \/ scraperStopped
     THEN pc' = "close" /\ UNCHANGED << url, experiences, raised, threw >>
     ELSE IF pages[url] = "none"
          THEN url' = url + 1 /\ UNCHANGED << pc, experiences, raised, threw >>
          ELSE /\ pc' = "enumerate"
               /\ experiences' = <<>>
               /\ raised' = FALSE
               /\ threw' = {}
               /\ UNCHANGED url
  /\ UNCHANGED << variant, loneItem, exitCode, dom, faults, scraperStarted,
                  scraperStopped, pages, allResults, resultsFile,
                  experienceItems, idx, experienceData, sectionErr, stopAt >>

\* page.$$(selectors.experienceItem) (scraper.js:55); a rejection is caught
\* at scraper.js:177 and scrapeExperience returns what it has.
ScrapeExperience_Enumerate ==
  /\ variant = "js" /\ pc = "enumerate"
  /\ UNCHANGED tsOnly
  /\ \/ /\ experienceItems' = PageItems(pages[url])
        /\ idx' = 0
        /\ pc' = "item_loop"
        /\ UNCHANGED << faults, sectionErr >>
     \/ /\ CanFault
        /\ faults' = faults + 1
        /\ sectionErr' = sectionErr \cup {url}
        /\ pc' = "return"
        /\ UNCHANGED << experienceItems, idx >>
  /\ UNCHANGED << variant, loneItem, exitCode, dom, scraperStarted, scraperStopped,
                  pages, allResults, resultsFile, url, experienceData,
                  experiences, raised, threw, stopAt >>

\* Mutant of ScrapeExperience_Loop: the stop flag is not polled before an item.
ScrapeExperience_Loop_NoPoll ==
  /\ variant = "js" /\ pc = "item_loop"
  /\ UNCHANGED tsOnly
  /\ IF idx >= Len(experienceItems)
     THEN pc' = "return" /\ UNCHANGED experienceData
     ELSE pc' = "children" /\ experienceData' = NewExperienceData(idx)
  /\ UNCHANGED << variant, loneItem, exitCode, dom, faults, scraperStarted,
                  scraperStopped, pages, allResults, resultsFile, url,
                  experienceItems, idx, experiences, raised, threw, sectionErr,
                  stopAt >>

\* The head of the item loop (scraper.js:58-75): the loop condition, the poll
\* of the stop flag and the fresh record.
ScrapeExperience_Loop ==
  /\ variant = "js" /\ pc = "item_loop"
  /\ UNCHANGED tsOnly
  /\ IF idx >= Len(experienceItems) \/ scraperStopped
     THEN pc' = "return" /\ UNCHANGED experienceData
     ELSE pc' = "children" /\ experienceData' = NewExperienceData(idx)
  /\ UNCHANGED << variant, loneItem, exitCode, dom, faults, scraperStarted,
                  scraperStopped, pages, allResults, resultsFile, url,
                  experienceItems, idx, experiences, raised, threw, sectionErr,
                  stopAt >>

\* Mutant of ScrapeExperience_Children: the record of an item with children
\* is pushed before the item is left.
ScrapeExperience_Children_PushSkipped ==
  /\ variant = "js" /\ pc = "children"
  /\ UNCHANGED tsOnly
  /\ \/ /\ IF HasChildren(Descendants(experienceItems, idx + 1))
           THEN /\ experienceData' = [experienceData EXCEPT !.has_children = TRUE]
                /\ experiences' = Push(experiences, experienceData')
                /\ idx' = idx + 1
                /\ pc' = "item_loop"
           ELSE pc' = "role" /\ UNCHANGED << experienceData, idx, experiences >>
        /\ UNCHANGED << faults, threw >>
     \/ /\ CanFault
        /\ faults' = faults + 1
        /\ threw' = threw \cup {<<idx, "children">>}
        /\ experiences' = Push(experiences, experienceData)
        /\ idx' = idx + 1
        /\ pc' = "item_loop"
        /\ UNCHANGED experienceData
  /\ UNCHANGED << variant, loneItem, exitCode, dom, scraperStarted, scraperStopped,
                  pages, allResults, resultsFile, url, experienceItems, raised,
                  sectionErr, stopAt >>

\* item.$$(selectors.experienceItem) and the skip (scraper.js:79-84); a
\* rejection goes to the catch of scraper.js:172-175, which pushes the record.
ScrapeExperience_Children ==
  /\ variant = "js" /\ pc = "children"
  /\ UNCHANGED tsOnly
  /\ \/ /\ IF HasChildren(Descendants(experienceItems, idx + 1))
           THEN /\ experienceData' = [experienceData EXCEPT !.has_children = TRUE]
                /\ idx' = idx + 1
                /\ pc' = "item_loop"
           ELSE pc' = "role" /\ UNCHANGED << experienceData, idx >>
        /\ UNCHANGED << faults, threw, experiences >>
     \/ /\ CanFault
        /\ faults' = faults + 1
        /\ threw' = threw \cup {<<idx, "children">>}
        /\ experiences' = Push(experiences, experienceData)
        /\ idx' = idx + 1
        /\ pc' = "item_loop"
        /\ UNCHANGED experienceData
  /\ UNCHANGED << variant, loneItem, exitCode, dom, scraperStarted, scraperStopped,
                  pages, allResults, resultsFile, url, experienceItems, raised,
                  sectionErr, stopAt >>

\* Mutant of ScrapeExperience_Role: the role is read outside any try of its
\* own or of the item, so a rejection ends the section at scraper.js:177.
ScrapeExperience_Role_Uncaught ==
  /\ variant = "js" /\ pc = "role"
  /\ UNCHANGED tsOnly
  /\ \/ /\ LET roleElem == ContentOf(idx + 1).role
           IN  experienceData' =
                 IF roleElem # Null
                 THEN [experienceData EXCEPT !.role = Some(Trim(roleElem[1]))]
                 ELSE experienceData
        /\ pc' = "details"
        /\ UNCHANGED << faults, threw >>
     \/ /\ CanFault
        /\ faults' = faults + 1
        /\ threw' = threw \cup {<<idx, "role">>}
        /\ pc' = "return"
        /\ UNCHANGED experienceData
  /\ UNCHANGED << variant, loneItem, exitCode, dom, scraperStarted, scraperStopped,
                  pages, allResults, resultsFile, url, experienceItems, idx,
                  experiences, raised, sectionErr, stopAt >>

\* item.$(selectors.role) and its text (scraper.js:87-96); a rejection is
\* caught at 94 and role stays null.
ScrapeExperience_Role ==
  /\ variant = "js" /\ pc = "role"
  /\ UNCHANGED tsOnly
  /\ \/ /\ LET roleElem == ContentOf(idx + 1).role
           IN  experienceData' =
                 IF roleElem # Null
                 THEN [experienceData EXCEPT !.role = Some(Trim(roleElem[1]))]
                 ELSE experienceData
        /\ UNCHANGED << faults, threw >>
     \/ /\ CanFault
        /\ faults' = faults + 1
        /\ threw' = threw \cup {<<idx, "role">>}
        /\ UNCHANGED experienceData
  /\ pc' = "details"
  /\ UNCHANGED << variant, loneItem, exitCode, dom, scraperStarted, scraperStopped,
                  pages, allResults, resultsFile, url, experienceItems, idx,
                  experiences, raised, sectionErr, stopAt >>

\* Mutant of ScrapeExperience_Details: the stop flag is looked at inside the
\* item too, and the item in hand is dropped when it is set.
ScrapeExperience_Details_Preempt ==
  /\ variant = "js" /\ pc = "details"
  /\ UNCHANGED tsOnly
  /\ IF scraperStopped
     THEN pc' = "return" /\ UNCHANGED << experienceData, faults, threw >>
     ELSE /\ pc' = "skills"
          /\ \/ /\ experienceData' =
                     CompanyAndDetails(experienceData,
                                       ReadTexts(ContentOf(idx + 1).details))
                /\ UNCHANGED << faults, threw >>
             \/ /\ CanFault
                /\ faults' = faults + 1
                /\ threw' = threw \cup {<<idx, "details">>}
                /\ UNCHANGED experienceData
  /\ UNCHANGED << variant, loneItem, exitCode, dom, scraperStarted, scraperStopped,
                  pages, allResults, resultsFile, url, experienceItems, idx,
                  experiences, raised, sectionErr, stopAt >>

\* item.$$(selectors.companyAndDetails) and the fields (scraper.js:99-136); a
\* rejection is caught at 134 before any of the fields is assigned.
ScrapeExperience_Details ==
  /\ variant = "js" /\ pc = "details"
  /\ UNCHANGED tsOnly
  /\ \/ /\ experienceData' =
             CompanyAndDetails(experienceData, ReadTexts(ContentOf(idx + 1).details))
        /\ UNCHANGED << faults, threw >>
     \/ /\ CanFault
        /\ faults' = faults + 1
        /\ threw' = threw \cup {<<idx, "details">>}
        /\ UNCHANGED experienceData
  /\ pc' = "skills"
  /\ UNCHANGED << variant, loneItem, exitCode, dom, scraperStarted, scraperStopped,
                  pages, allResults, resultsFile, url, experienceItems, idx,
                  experiences, raised, sectionErr, stopAt >>

\* item.$$(selectors.skills_and_description), the fields and the push of the
\* record (scraper.js:139-171); a rejection is caught at 167.
ScrapeExperience_Skills ==
  /\ variant = "js" /\ pc = "skills"
  /\ UNCHANGED tsOnly
  /\ \/ /\ LET rec == SkillsAndDescription(experienceData,
                                           ReadTexts(ContentOf(idx + 1).descs))
           IN  experienceData' = rec /\ experiences' = Push(experiences, rec)
        /\ UNCHANGED << faults, threw >>
     \/ /\ CanFault
        /\ faults' = faults + 1
        /\ threw' = threw \cup {<<idx, "skills">>}
        /\ experiences' = Push(experiences, experienceData)
        /\ UNCHANGED experienceData
  /\ idx' = idx + 1
  /\ pc' = "item_loop"
  /\ UNCHANGED << variant, loneItem, exitCode, dom, scraperStarted, scraperStopped,
                  pages, allResults, resultsFile, url, experienceItems, raised,
                  sectionErr, stopAt >>

\* scrapeExperience returns (scraper.js:181), scrapeProfile wraps the list
\* (scraper.js:233-254) and main pushes the entry (scraper.js:323-324).  The
\* locals of scrapeExperience go out of scope.
ScrapeProfile_Return ==
  /\ variant = "js" /\ pc = "return"
  /\ UNCHANGED tsOnly
  /\ allResults' =
       [allResults EXCEPT
          !.profiles = Append(@, ProfileResult(Urls[url], raised, experiences))]
  /\ url' = url + 1
  /\ pc' = "main_loop"
  /\ experienceItems' = <<>>
  /\ idx' = 0
  /\ experienceData' = NewExperienceData(0)
  /\ experiences' = <<>>
  /\ raised' = FALSE
  /\ threw' = {}
  /\ UNCHANGED << variant, loneItem, exitCode, dom, faults, scraperStarted,
                  scraperStopped, pages, resultsFile, sectionErr, stopAt >>

\* browser.close() (scraper.js:328); a rejection leaves main and exits with 1.
Main_Close ==
  /\ variant = "js" /\ pc = "close"
  /\ UNCHANGED tsOnly
  /\ \/ /\ pc' = "save"
        /\ UNCHANGED << variant, loneItem, exitCode, dom, faults, scraperStarted,
                        scraperStopped, pages, allResults, resultsFile, url,
                        experienceItems, idx, experienceData, experiences,
                        raised, threw, sectionErr, stopAt >>
     \/ CanFault /\ Exit(1)

\* fs.writeFileSync(resultsPath, ...) and process.exit(0) (scraper.js:333-351);
\* a failed write leaves main and exits with 1.
Main_Save ==
  /\ variant = "js" /\ pc = "save"
  /\ UNCHANGED tsOnly
  /\ \/ /\ resultsFile' = Some(allResults)
        /\ pc' = "done"
        /\ exitCode' = 0
        /\ UNCHANGED << variant, loneItem, dom, faults, scraperStarted, scraperStopped,
                        pages, allResults, url, experienceItems, idx,
                        experienceData, experiences, raised, threw, sectionErr,
                        stopAt >>
     \/ CanFault /\ Exit(1)

NextJS ==
  \/ Main_LoadConfig \/ Main_Launch \/ LoadUrl \/ KeyS \/ KeyExit
  \/ WaitForStart \/ Main_Loop \/ ScrapeExperience_Enumerate
  \/ ScrapeExperience_Loop \/ ScrapeExperience_Children
  \/ ScrapeExperience_Role \/ ScrapeExperience_Details
  \/ ScrapeExperience_Skills \/ ScrapeProfile_Return \/ Main_Close \/ Main_Save

\* ======================================================================
\* src/unnamed/part_000 (the TypeScript variant)
\* ======================================================================

\* el.textContent?.trim() || "" (part_000:160)
TextOf(raw) == Trim(raw)

\* The literal "null" of part_000:201-202
NullText == <<"n", "u", "l", "l">>

\* The locals of one item before anything is read (part_000:158-202).
NewRow ==
  [jobTitle |-> <<>>, companyAndType |-> <<>>, datesAndDuration |-> <<>>,
   location |-> <<>>]

\* Mutant of HasChildrenOfSameType: only two or more children count.
HasChildrenOfSameType_Several(children) == Cardinality(children) > 1

\* hasChildrenOfSameType (part_000:71-77)
HasChildrenOfSameType(children) == Cardinality(children) > 0

\* Mutant of IsChildElement: the walk never finds a matching parent.
IsChildElement_Never(f, n) == FALSE

\* isChildElement (part_000:80-101): walk up the parents, true at the first
\* one matching the item selector.
IsChildElement(f, n) == Ancestors(f, n) # {}

\* part_000:175-192: the three detail fields, read only when three or more
\* detail elements are found.
Details(row, detailsElements) ==
  IF Len(detailsElements) >= 3
  THEN [row EXCEPT !.companyAndType = TextOf(detailsElements[1]),
                   !.datesAndDuration = TextOf(detailsElements[2]),
                   !.location = TextOf(detailsElements[3])]
  ELSE row

\* part_000:201-225: description and skills by count.
DescriptionAndSkills(descriptionElements) ==
  IF Len(descriptionElements) = 0
  THEN [description |-> NullText, skills |-> NullText]
  ELSE IF Len(descriptionElements) = 1
       THEN [description |-> NullText, skills |-> TextOf(descriptionElements[1])]
       ELSE [description |-> TextOf(descriptionElements[1]),
             skills |-> TextOf(descriptionElements[2])]

\* The row pushed at part_000:227-235.
ExperienceRow(profileUrl, row, ds) ==
  [Profil |-> profileUrl, TitreDuPoste |-> row.jobTitle,
   EntrepriseEtTypeDEmploi |-> row.companyAndType,
   DatesEtDuree |-> row.datesAndDuration, Lieu |-> row.location,
   Description |-> ds.description, Competences |-> ds.skills]

\* The education items of a profile page: institution and detail texts.
MaxEducationItems == 1
EducationItem ==
  [institution |-> Some(<<"u">>), details |-> << <<"d">>, <<" ", "y">> >>]

\* The row pushed at part_000:291-306.
EducationRow(profileUrl, item) ==
  [Profil |-> profileUrl,
   Etablissement |-> IF item.institution # Null
                     THEN TextOf(item.institution[1]) ELSE <<>>,
   Diplome |-> IF Len(item.details) >= 1 THEN TextOf(item.details[1]) ELSE <<>>,
   Duree |-> IF Len(item.details) >= 2 THEN TextOf(item.details[2]) ELSE <<>>]

\* The process ends (pcEnd = "exit", with its status) or stays alive with main
\* rejected (pcEnd = "hung", no status); its memory is gone either way.
TS_End(pcEnd, code) ==
  /\ pc' = pcEnd
  /\ exitCode' = code
  /\ faults' = 0
  /\ url' = 1
  /\ experienceItems' = <<>>
  /\ idx' = 0
  /\ raised' = FALSE
  /\ threw' = {}
  /\ allExperienceData' = <<>>
  /\ allEducationData' = <<>>
  /\ tsExperienceData' = <<>>
  /\ tsRow' = NewRow
  /\ origin' = <<>>
  /\ educationData' = <<>>
  /\ UNCHANGED << variant, loneItem, dom, scrapingEnabled, outputFile >>

\* main: loadConfig (part_000:343, 47-50).  A missing or malformed config.json
\* rejects main; main().catch(console.error) logs it and the process ends
\* with status 0.
TS_LoadConfig ==
  /\ variant = "ts" /\ pc = "loadConfig"
  /\ UNCHANGED jsOnly
  /\ \/ /\ pc' = "launch"
        /\ UNCHANGED << variant, loneItem, exitCode, dom, faults, url, experienceItems,
                        idx, raised, threw, tsOnly >>
     \/ TS_End("exit", 0)

\* puppeteer.launch (part_000:347-351): a failed launch rejects main, which is
\* logged, and the process ends with status 0.
TS_Launch ==
  /\ variant = "ts" /\ pc = "launch"
  /\ UNCHANGED jsOnly
  /\ \/ /\ pc' = "open"
        /\ UNCHANGED << variant, loneItem, exitCode, dom, faults, url, experienceItems,
                        idx, raised, threw, tsOnly >>
     \/ TS_End("exit", 0)

\* browser.newPage, page.goto(linkedin) and the keyboard listener
\* (part_000:353-364).  A rejection is logged; the open browser keeps the
\* process alive.
TS_Open ==
  /\ variant = "ts" /\ pc = "open"
  /\ UNCHANGED jsOnly
  /\ \/ /\ pc' = "wait"
        /\ UNCHANGED << variant, loneItem, exitCode, dom, faults, url, experienceItems,
                        idx, raised, threw, tsOnly >>
     \/ CanFault /\ TS_End("hung", -1)

\* The keypress listener is installed and the process lives.
TS_Listening == pc \notin {"loadConfig", "launch", "open", "exit", "done", "hung"}

\* F9 (part_000:60-63)
KeyF9 ==
  /\ variant = "ts" /\ TS_Listening
  /\ UNCHANGED jsOnly
  /\ scrapingEnabled' = TRUE
  /\ UNCHANGED << variant, loneItem, pc, exitCode, dom, faults, url, experienceItems,
                  idx, raised, threw, allExperienceData, allEducationData,
                  outputFile, tsExperienceData, tsRow, origin, educationData >>

\* Ctrl+C (part_000:64-66)
KeyCtrlC ==
  /\ variant = "ts" /\ TS_Listening
  /\ UNCHANGED jsOnly
  /\ TS_End("exit", 0)

\* The wait loop ends once scrapingEnabled is seen (part_000:367-373).
TS_Wait ==
  /\ variant = "ts" /\ pc = "wait"
  /\ UNCHANGED jsOnly
  /\ scrapingEnabled
  /\ allExperienceData' = <<>>
  /\ allEducationData' = <<>>
  /\ url' = 1
  /\ pc' = "profile"
  /\ UNCHANGED << variant, loneItem, exitCode, dom, faults, experienceItems, idx, raised,
                  threw, scrapingEnabled, outputFile, tsExperienceData, tsRow,
                  origin, educationData >>

\* The head of the loop over config.profiles (part_000:375-380) and the entry
\* of scrapeExperience (part_000:109-113).
TS_Profile ==
  /\ variant = "ts" /\ pc = "profile"
  /\ UNCHANGED jsOnly
  /\ IF url > NumUrls
     THEN pc' = "export" /\ UNCHANGED << tsExperienceData, origin, raised, threw >>
     ELSE /\ pc' = "exp_goto"
          /\ tsExperienceData' = <<>>
          /\ origin' = <<>>
          /\ raised' = FALSE
          /\ threw' = {}
  /\ UNCHANGED << variant, loneItem, exitCode, dom, faults, url, experienceItems, idx,
                  scrapingEnabled, allExperienceData, allEducationData,
                  outputFile, tsRow, educationData >>

\* Where the item loop of part_000:124 goes with loop index n.
ItemLoop(n, items) == IF n < Len(items) THEN "isChild" ELSE "exp_done"

\* page.goto(experienceUrl) (part_000:115); a rejection leaves scrapeExperience.
TS_ExpGoto ==
  /\ variant = "ts" /\ pc = "exp_goto"
  /\ UNCHANGED jsOnly
  /\ \/ pc' = "exp_enum" /\ UNCHANGED << faults, raised, threw >>
     \/ /\ CanFault
        /\ faults' = faults + 1
        /\ threw' = threw \cup {<<-1, "goto">>}
        /\ raised' = TRUE
        /\ pc' = "exp_done"
  /\ UNCHANGED << variant, loneItem, exitCode, dom, url, experienceItems, idx, tsOnly >>

\* page.$$(experienceItem) (part_000:121); a rejection leaves scrapeExperience.
TS_ExpEnumerate ==
  /\ variant = "ts" /\ pc = "exp_enum"
  /\ UNCHANGED jsOnly
  /\ \/ /\ experienceItems' = dom
        /\ idx' = 0
        /\ pc' = ItemLoop(0, dom)
        /\ UNCHANGED << faults, raised, threw >>
     \/ /\ CanFault
        /\ faults' = faults + 1
        /\ threw' = threw \cup {<<-1, "enumerate">>}
        /\ raised' = TRUE
        /\ pc' = "exp_done"
        /\ UNCHANGED << experienceItems, idx >>
  /\ UNCHANGED << variant, loneItem, exitCode, dom, url, tsOnly >>

\* isChildElement and its skip (part_000:128-137); the call is outside the
\* try, so a rejection leaves scrapeExperience.
TS_IsChild ==
  /\ variant = "ts" /\ pc = "isChild"
  /\ UNCHANGED jsOnly
  /\ \/ /\ IF IsChildElement(experienceItems, idx + 1)
           THEN idx' = idx + 1 /\ pc' = ItemLoop(idx + 1, experienceItems)
           ELSE pc' = "hasChildren" /\ UNCHANGED idx
        /\ UNCHANGED << faults, raised, threw >>
     \/ /\ CanFault
        /\ faults' = faults + 1
        /\ threw' = threw \cup {<<idx, "isChild">>}
        /\ raised' = TRUE
        /\ pc' = "exp_done"
        /\ UNCHANGED idx
  /\ UNCHANGED << variant, loneItem, exitCode, dom, url, experienceItems, tsOnly >>

\* hasChildrenOfSameType and its skip (part_000:140-148); outside the try too.
TS_HasChildren ==
  /\ variant = "ts" /\ pc = "hasChildren"
  /\ UNCHANGED jsOnly
  /\ \/ /\ IF HasChildrenOfSameType(Descendants(experienceItems, idx + 1))
           THEN idx' = idx + 1 /\ pc' = ItemLoop(idx + 1, experienceItems)
           ELSE pc' = "title" /\ UNCHANGED idx
        /\ UNCHANGED << faults, raised, threw >>
     \/ /\ CanFault
        /\ faults' = faults + 1
        /\ threw' = threw \cup {<<idx, "hasChildren">>}
        /\ raised' = TRUE
        /\ pc' = "exp_done"
        /\ UNCHANGED idx
  /\ UNCHANGED << variant, loneItem, exitCode, dom, url, experienceItems, tsOnly >>

\* The catch of part_000:238-243: the item is logged and left out.
ItemCatch(stage) ==
  /\ CanFault
  /\ faults' = faults + 1
  /\ threw' = threw \cup {<<idx, stage>>}
  /\ idx' = idx + 1
  /\ pc' = ItemLoop(idx + 1, experienceItems)

\* The job title (part_000:152-163).
TS_Title ==
  /\ variant = "ts" /\ pc = "title"
  /\ UNCHANGED jsOnly
  /\ \/ /\ LET jobTitleElement == ContentOf(idx + 1).role
           IN  tsRow' = [NewRow EXCEPT !.jobTitle =
                           IF jobTitleElement # Null
                           THEN TextOf(jobTitleElement[1]) ELSE <<>>]
        /\ pc' = "details"
        /\ UNCHANGED << faults, threw, idx >>
     \/ ItemCatch("title") /\ UNCHANGED tsRow
  /\ UNCHANGED << variant, loneItem, exitCode, dom, url, experienceItems, raised,
                  scrapingEnabled, allExperienceData, allEducationData,
                  outputFile, tsExperienceData, origin, educationData >>

\* The detail fields (part_000:166-192).
TS_Details ==
  /\ variant = "ts" /\ pc = "details"
  /\ UNCHANGED jsOnly
  /\ \/ /\ tsRow' = Details(tsRow, ContentOf(idx + 1).details)
        /\ pc' = "description"
        /\ UNCHANGED << faults, threw, idx >>
     \/ ItemCatch("details") /\ UNCHANGED tsRow
  /\ UNCHANGED << variant, loneItem, exitCode, dom, url, experienceItems, raised,
                  scrapingEnabled, allExperienceData, allEducationData,
                  outputFile, tsExperienceData, origin, educationData >>

\* Description, skills and the push of the row (part_000:195-237).
TS_Description ==
  /\ variant = "ts" /\ pc = "description"
  /\ UNCHANGED jsOnly
  /\ \/ /\ tsExperienceData' =
             Append(tsExperienceData,
                    ExperienceRow(Urls[url], tsRow,
                                  DescriptionAndSkills(ContentOf(idx + 1).descs)))
        /\ origin' = Append(origin, idx)
        /\ idx' = idx + 1
        /\ pc' = ItemLoop(idx + 1, experienceItems)
        /\ UNCHANGED << faults, threw >>
     \/ ItemCatch("description") /\ UNCHANGED << tsExperienceData, origin >>
  /\ UNCHANGED << variant, loneItem, exitCode, dom, url, experienceItems, raised,
                  scrapingEnabled, allExperienceData, allEducationData,
                  outputFile, tsRow, educationData >>

\* scrapeExperience is over: its rows are appended, or its rejection is
\* logged (part_000:379-390); scrapeEducation is entered (part_000:251-254).
TS_ExpDone ==
  /\ variant = "ts" /\ pc = "exp_done"
  /\ UNCHANGED jsOnly
  /\ allExperienceData' =
       IF raised THEN allExperienceData ELSE allExperienceData \o tsExperienceData
  /\ pc' = "edu_goto"
  /\ experienceItems' = <<>>
  /\ idx' = 0
  /\ tsExperienceData' = <<>>
  /\ tsRow' = NewRow
  /\ origin' = <<>>
  /\ raised' = FALSE
  /\ threw' = {}
  /\ educationData' = <<>>
  /\ UNCHANGED << variant, loneItem, exitCode, dom, faults, url, scrapingEnabled,
                  allEducationData, outputFile >>

\* page.goto(educationUrl) (part_000:257)
TS_EduGoto ==
  /\ variant = "ts" /\ pc = "edu_goto"
  /\ UNCHANGED jsOnly
  /\ \/ pc' = "edu_enum" /\ UNCHANGED << faults, raised >>
     \/ CanFault /\ faults' = faults + 1 /\ raised' = TRUE /\ pc' = "edu_done"
  /\ UNCHANGED << variant, loneItem, exitCode, dom, url, experienceItems, idx, threw,
                  tsOnly >>

\* page.$$(educationItem) (part_000:263); idx counts the education items
\* still to read.
TS_EduEnumerate ==
  /\ variant = "ts" /\ pc = "edu_enum"
  /\ UNCHANGED jsOnly
  /\ \/ /\ \E n \in 0..MaxEducationItems :
             idx' = n /\ pc' = IF n > 0 THEN "edu_item" ELSE "edu_done"
        /\ UNCHANGED << faults, raised >>
     \/ /\ CanFault
        /\ faults' = faults + 1
        /\ raised' = TRUE
        /\ pc' = "edu_done"
        /\ UNCHANGED idx
  /\ UNCHANGED << variant, loneItem, exitCode, dom, url, experienceItems, threw, tsOnly >>

\* One education item (part_000:269-311): its row is pushed, or the catch
\* leaves it out.
TS_EduItem ==
  /\ variant = "ts" /\ pc = "edu_item"
  /\ UNCHANGED jsOnly
  /\ \/ /\ educationData' =
             Append(educationData, EducationRow(Urls[url], EducationItem))
        /\ UNCHANGED faults
     \/ CanFault /\ faults' = faults + 1 /\ UNCHANGED educationData
  /\ idx' = idx - 1
  /\ pc' = IF idx > 1 THEN "edu_item" ELSE "edu_done"
  /\ UNCHANGED << variant, loneItem, exitCode, dom, url, experienceItems, raised, threw,
                  scrapingEnabled, allExperienceData, allEducationData,
                  outputFile, tsExperienceData, tsRow, origin >>

\* scrapeEducation is over (part_000:393-405); next profile.
TS_EduDone ==
  /\ variant = "ts" /\ pc = "edu_done"
  /\ UNCHANGED jsOnly
  /\ allEducationData' =
       IF raised THEN allEducationData ELSE allEducationData \o educationData
  /\ educationData' = <<>>
  /\ raised' = FALSE
  /\ idx' = 0
  /\ url' = url + 1
  /\ pc' = "profile"
  /\ UNCHANGED << variant, loneItem, exitCode, dom, faults, experienceItems, threw,
                  scrapingEnabled, allExperienceData, outputFile,
                  tsExperienceData, tsRow, origin >>

\* exportToExcel, only when something was extracted (part_000:408-415,
\* 318-336); a failed write rejects main with the browser still open.
TS_Export ==
  /\ variant = "ts" /\ pc = "export"
  /\ UNCHANGED jsOnly
  /\ \/ /\ outputFile' =
             IF Len(allExperienceData) > 0 \/ Len(allEducationData) > 0
             THEN Some([Experience |-> allExperienceData,
                        Education |-> allEducationData])
             ELSE outputFile
        /\ pc' = "close"
        /\ UNCHANGED << variant, loneItem, exitCode, dom, faults, url, experienceItems,
                        idx, raised, threw, scrapingEnabled, allExperienceData,
                        allEducationData, tsExperienceData, tsRow, origin,
                        educationData >>
     \/ /\ Len(allExperienceData) > 0 \/ Len(allEducationData) > 0
        /\ CanFault
        /\ TS_End("hung", -1)

\* browser.close() and process.exit(0) (part_000:418-419).
TS_Close ==
  /\ variant = "ts" /\ pc = "close"
  /\ UNCHANGED jsOnly
  /\ \/ /\ pc' = "done"
        /\ exitCode' = 0
        /\ UNCHANGED << variant, loneItem, dom, faults, url, experienceItems, idx, raised,
                        threw, tsOnly >>
     \/ CanFault /\ TS_End("hung", -1)

NextTS ==
  \/ TS_LoadConfig \/ TS_Launch \/ TS_Open \/ KeyF9 \/ KeyCtrlC \/ TS_Wait
  \/ TS_Profile \/ TS_ExpGoto \/ TS_ExpEnumerate \/ TS_IsChild
  \/ TS_HasChildren \/ TS_Title \/ TS_Details \/ TS_Description \/ TS_ExpDone
  \/ TS_EduGoto \/ TS_EduEnumerate \/ TS_EduItem \/ TS_EduDone \/ TS_Export
  \/ TS_Close

Init ==
  /\ variant \in {"js", "ts"}
  /\ loneItem = NoItem
  /\ pc = "loadConfig"
  /\ exitCode = -1
  /\ dom \in Doms
  /\ faults = 0
  /\ scraperStarted = FALSE
  /\ scraperStopped = FALSE
  /\ pages = [u \in 1..NumUrls |-> "none"]
  /\ allResults = [total_profiles |-> NumUrls, profiles |-> <<>>]
  /\ resultsFile = Null
  /\ url = 1
  /\ experienceItems = <<>>
  /\ idx = 0
  /\ experienceData = NewExperienceData(0)
  /\ experiences = <<>>
  /\ raised = FALSE
  /\ threw = {}
  /\ sectionErr = {}
  /\ stopAt = NoStop
  /\ scrapingEnabled = FALSE
  /\ allExperienceData = <<>>
  /\ allEducationData = <<>>
  /\ outputFile = Null
  /\ tsExperienceData = <<>>
  /\ tsRow = NewRow
  /\ origin = <<>>
  /\ educationData = <<>>

Next == NextJS \/ NextTS

Spec == Init /\ [][Next]_vars

\* ======================================================================
\* The field mapping of one item, on its own
\* ======================================================================
\* The part of scrapeExperience that turns the elements found inside one item
\* into the fields of its record, run on one item whose detail and
\* description elements are drawn from all short sequences of texts.

\* Largest number of detail elements, and of description elements, in an item.
MaxElems == 4

\* The texts an element can hold, before trimming.
ElemTexts == { <<"a">>, <<" ">>, <<"b", " ", "·", " ", "c", " ">> }

\* All sequences of at most n element texts.
ElemSeqs(n) == UNION { [1..k -> ElemTexts] : k \in 0..n }

FieldInit ==
  /\ variant \in {"js", "ts"}
  /\ loneItem \in { [role |-> Null, details |-> d, descs |-> e] :
                      d \in ElemSeqs(MaxElems), e \in ElemSeqs(MaxElems) }
  /\ pc = "f_details"
  /\ exitCode = -1
  /\ dom = <<0>>
  /\ faults = 0
  /\ scraperStarted = TRUE
  /\ scraperStopped = FALSE
  /\ pages = [u \in 1..NumUrls |-> "ok"]
  /\ allResults = [total_profiles |-> NumUrls, profiles |-> <<>>]
  /\ resultsFile = Null
  /\ url = 1
  /\ experienceItems = <<0>>
  /\ idx = 0
  /\ experienceData = NewExperienceData(0)
  /\ experiences = <<>>
  /\ raised = FALSE
  /\ threw = {}
  /\ sectionErr = {}
  /\ stopAt = NoStop
  /\ scrapingEnabled = TRUE
  /\ allExperienceData = <<>>
  /\ allEducationData = <<>>
  /\ outputFile = Null
  /\ tsExperienceData = <<>>
  /\ tsRow = NewRow
  /\ origin = <<>>
  /\ educationData = <<>>

\* scraper.js:99-133 with every call answering.
Fields_Details ==
  /\ variant = "js" /\ pc = "f_details"
  /\ experienceData' = CompanyAndDetails(experienceData, ReadTexts(loneItem.details))
  /\ pc' = "f_skills"
  /\ UNCHANGED << variant, loneItem, exitCode, dom, faults, scraperStarted,
                  scraperStopped, pages, allResults, resultsFile, url,
                  experienceItems, idx, experiences, raised, threw, sectionErr,
                  stopAt, tsOnly >>

\* scraper.js:139-171 with every call answering.
Fields_Skills ==
  /\ variant = "js" /\ pc = "f_skills"
  /\ LET rec == SkillsAndDescription(experienceData, ReadTexts(loneItem.descs))
     IN  experienceData' = rec /\ experiences' = Push(experiences, rec)
  /\ pc' = "f_done"
  /\ UNCHANGED << variant, loneItem, exitCode, dom, faults, scraperStarted,
                  scraperStopped, pages, allResults, resultsFile, url,
                  experienceItems, idx, raised, threw, sectionErr, stopAt,
                  tsOnly >>

\* part_000:166-192 with every call answering.
Fields_TS_Details ==
  /\ variant = "ts" /\ pc = "f_details"
  /\ tsRow' = Details(tsRow, loneItem.details)
  /\ pc' = "f_description"
  /\ UNCHANGED << variant, loneItem, exitCode, dom, faults, url, experienceItems,
                  idx, raised, threw, scrapingEnabled, allExperienceData,
                  allEducationData, outputFile, tsExperienceData, origin,
                  educationData, jsOnly >>

\* part_000:195-235 with every call answering.
Fields_TS_Description ==
  /\ variant = "ts" /\ pc = "f_description"
  /\ tsExperienceData' =
       Append(tsExperienceData,
              ExperienceRow(Urls[url], tsRow, DescriptionAndSkills(loneItem.descs)))
  /\ origin' = Append(origin, idx)
  /\ pc' = "f_done"
  /\ UNCHANGED << variant, loneItem, exitCode, dom, faults, url, experienceItems,
                  idx, raised, threw, scrapingEnabled, allExperienceData,
                  allEducationData, outputFile, tsRow, educationData, jsOnly >>

FieldNext ==
  \/ Fields_Details \/ Fields_Skills \/ Fields_TS_Details
  \/ Fields_TS_Description

FieldSpec == FieldInit /\ [][FieldNext]_vars

\* ======================================================================
\* Properties
\* ======================================================================

Range(seq) == { seq[k] : k \in DOMAIN seq }

StrictlyIncreasing(seq) ==
  \A a, b \in DOMAIN seq : a < b => seq[a] < seq[b]

\* The index fields of a list of scraper.js records, in list order.
Indices(list) == [k \in DOMAIN list |-> list[k].index]

\* scraper.js leaves item i out: its children query answered, with more than
\* one item node below it.
SkippedJS(i) ==
  /\ <<i, "children">> \notin threw
  /\ Cardinality(Descendants(experienceItems, i + 1)) > 1

\* The TypeScript variant leaves item i out: it lies inside another item node
\* or has one below it.
SkippedTS(i) ==
  \/ Ancestors(experienceItems, i + 1) # {}
  \/ Descendants(experienceItems, i + 1) # {}

\* Some call of item i (any stage) rejected in this section.
Failed(i) == \E e \in threw : e[1] = i

\* The TypeScript section was left by a rejection outside the item try.
AbortCauses == {"goto", "enumerate", "isChild", "hasChildren"}
Aborted == \E e \in threw : e[2] \in AbortCauses

\* The record scraper.js builds for item i when every read succeeds.
FullRecordJS(i) ==
  LET c  == ContentOf(i + 1)
      r0 == NewExperienceData(i)
      r1 == IF c.role # Null THEN [r0 EXCEPT !.role = Some(Trim(c.role[1]))] ELSE r0
  IN  SkillsAndDescription(CompanyAndDetails(r1, ReadTexts(c.details)),
                           ReadTexts(c.descs))

\* ---------------------------------------------------------------------- C1
\* C1 (scraper.js, partial run): when the stop flag is raised at the head of
\* the item loop with k items of the section already processed (the loop
\* counter idx stands at k: the k-th item is done, the next one not begun),
\* scrapeExperience returns normally and the returned list holds exactly one
\* record for every non-skipped item of index < k and no other record.
C1_PartialRun ==
  (variant = "js" /\ pc = "return" /\ stopAt.pc = "item_loop" /\ stopAt.url = url)
    => /\ ~raised
       /\ StrictlyIncreasing(Indices(experiences))
       /\ Range(Indices(experiences)) =
            { i \in 0..(stopAt.idx - 1) : ~SkippedJS(i) }

\* A section of three items stopped after its first two, one record kept.
C1_Witness ==
  /\ variant = "js" /\ pc = "return"
  /\ stopAt.pc = "item_loop" /\ stopAt.url = url
  /\ stopAt.idx = 2 /\ Len(experienceItems) = 3
  /\ Len(experiences) >= 1
  /\ ~SkippedJS(2)

\* ---------------------------------------------------------------------- C2
\* C2 (both variants, failure isolation): when reading the title/role of
\* item k rejects, the section call does not end by it; item k is in the
\* output with a null role (scraper.js) or left out (TypeScript); and, unless
\* the section is ended by something else (the stop flag, a rejection outside
\* the item try), every later item that is not skipped and whose own reads
\* succeed has its record in the output.
C2_FailureIsolation ==
  /\ (variant = "js" /\ pc = "return")
       => \A k \in 0..(Len(experienceItems) - 1) :
            <<k, "role">> \in threw
              => /\ ~raised
                 /\ \E n \in DOMAIN experiences :
                      experiences[n].index = k /\ experiences[n].role = Null
                 /\ ~scraperStopped
                      => \A j \in (k + 1)..(Len(experienceItems) - 1) :
                           ~SkippedJS(j) => j \in Range(Indices(experiences))
  /\ (variant = "ts" /\ pc = "exp_done")
       => \A k \in 0..(Len(experienceItems) - 1) :
            <<k, "title">> \in threw
              => /\ k \notin Range(origin)
                 /\ ~Aborted
                      => /\ ~raised
                         /\ \A j \in (k + 1)..(Len(experienceItems) - 1) :
                              (~SkippedTS(j) /\ ~Failed(j)) => j \in Range(origin)
  /\ (variant = "ts" /\ pc = "exp_done" /\ raised) => Aborted

\* The role of the first of three items rejected and both later items are out.
C2_Witness ==
  /\ variant = "js" /\ pc = "return"
  /\ <<0, "role">> \in threw
  /\ Len(experienceItems) = 3
  /\ Range(Indices(experiences)) = {0, 1, 2}

\* ---------------------------------------------------------------------- C3
\* C3 (both variants, fail-open duplicate check), as claimed: an item whose
\* duplicate check itself rejects is treated as not a duplicate, so its
\* record is in the output with the fields read as for any other item, and
\* the section goes on.
C3_FailOpen ==
  /\ (variant = "js" /\ pc = "return")
       => \A i \in 0..(Len(experienceItems) - 1) :
            <<i, "children">> \in threw
              => \E n \in DOMAIN experiences : experiences[n] = FullRecordJS(i)
  /\ (variant = "ts" /\ pc = "exp_done")
       => \A i \in 0..(Len(experienceItems) - 1) :
            (<<i, "isChild">> \in threw \/ <<i, "hasChildren">> \in threw)
              => ~raised /\ i \in Range(origin)

\* ---------------------------------------------------------------------- C4
\* C4 (both variants, containment check), as claimed: an item with at least
\* one item node below it never has a record in the section output.  Stated
\* for the runs in which no call rejects (a rejected check is C3's case).
C4_Containment ==
  /\ (variant = "js" /\ faults = 0)
       => \A n \in DOMAIN experiences :
            Descendants(experienceItems, experiences[n].index + 1) = {}
  /\ variant = "ts"
       => \A k \in Range(origin) : Descendants(experienceItems, k + 1) = {}

\* ---------------------------------------------------------------------- C5
\* C5 as claimed (both variants, descendant check): an item lying inside
\* another item node never has a record in the section output.  Stated for
\* the runs in which no call rejects.
C5_DescendantBoth ==
  /\ (variant = "js" /\ faults = 0)
       => \A n \in DOMAIN experiences :
            Ancestors(experienceItems, experiences[n].index + 1) = {}
  /\ variant = "ts"
       => \A k \in Range(origin) : Ancestors(experienceItems, k + 1) = {}

\* C5 amended (TypeScript variant only): an item lying inside another item
\* node never has a row in the section output; skipping raises nothing and
\* does not stop the loop: a section that no rejection ended returns
\* normally with exactly the rows of the items that are not skipped and did
\* not fail.
C5_DescendantTS ==
  variant = "ts"
    => /\ \A k \in Range(origin) : Ancestors(experienceItems, k + 1) = {}
       /\ (pc = "exp_done" /\ ~Aborted)
            => /\ ~raised
               /\ Range(origin) =
                    { i \in 0..(Len(experienceItems) - 1) :
                        ~SkippedTS(i) /\ ~Failed(i) }

\* A nested item was skipped and a later item still gave its row.
C5_Witness ==
  /\ variant = "ts" /\ pc = "exp_done" /\ ~raised
  /\ \E i, j \in 0..(Len(experienceItems) - 1) :
       /\ i < j
       /\ Ancestors(experienceItems, i + 1) # {}
       /\ j \in Range(origin)

\* ---------------------------------------------------------------------- C6
\* The page of the scenario: n2 inside n1, n3 apart.
NestedScenario == <<0, 1, 0>>

C7_NavigationFailure ==
  (variant = "js" /\ pc = "done" /\ pages[1] \in {"none", "timeout"}
     /\ pages[2] = "ok" /\ ~scraperStopped /\ faults = 0)
    => LET profiles == resultsFile[1].profiles
       IN  /\ Len(profiles) = 2
           /\ profiles[1].url = "A"
           /\ profiles[1].success = FALSE
           /\ profiles[1].error # Null
           /\ profiles[2].url = "B"
           /\ profiles[2].success = TRUE

\* ---------------------------------------------------------------------- C8
\* The position of a url in config.urls.
UrlIndex(u) == CHOOSE n \in 1..NumUrls : Urls[n] = u

\* C8 (scraper.js, section failure), as claimed: the entry of a target whose
\* item enumeration rejected has success=false and a non-null error.
C8_SectionFailure ==
  variant = "js"
    => \A n \in DOMAIN allResults.profiles :
         UrlIndex(allResults.profiles[n].url) \in sectionErr
           => /\ allResults.profiles[n].success = FALSE
              /\ allResults.profiles[n].error # Null

\* ---------------------------------------------------------------------- C9
\* The loop over the targets has seen the stop flag, or is over.
LoopLeft ==
  /\ variant = "js"
  /\ \/ pc = "main_loop" /\ scraperStopped
     \/ pc \in {"close", "save"}

\* The entries are those of targets before the loop position, in
\* configuration order, one per target.
EntriesInOrder ==
  variant = "js"
    => /\ \A n \in DOMAIN allResults.profiles :
            UrlIndex(allResults.profiles[n].url) < url
       /\ \A a, b \in DOMAIN allResults.profiles :
            a < b => UrlIndex(allResults.profiles[a].url)
                       < UrlIndex(allResults.profiles[b].url)

\* C9 (scraper.js, run-level stop): once the loop over the targets finds the
\* stop flag set before target t, no target is scraped any more and the
\* entries stay as they are up to the write of results.json, which holds
\* exactly them; the entries are always those of targets before the loop
\* position, in configuration order, so t and the later targets have none.
C9_RunLevelStop ==
  /\ []EntriesInOrder
  /\ [][LoopLeft =>
          \/ pc' = "exit"
          \/ /\ allResults' = allResults
             /\ pc' \in {"main_loop", "close", "save", "done"}
             /\ pc' = "done" => resultsFile' = Some(allResults)]_vars

\* The loop was left by the stop flag before target B, with A's entry made.
C9_Witness ==
  /\ variant = "js" /\ pc = "done" /\ scraperStopped
  /\ url = 2
  /\ Len(resultsFile[1].profiles) = 1
  /\ resultsFile[1].profiles[1].url = "A"
  /\ pages[2] = "ok"

\* --------------------------------------------------------------------- C10
\* C10 (both variants, document order): the records of a section output come
\* from distinct items, in the order of the enumeration: the item positions
\* of the output are strictly increasing (scraper.js: the index fields, also
\* in every entry already made; TypeScript: the items the rows were built
\* from, each row carrying the title of its item).
C10_DocumentOrder ==
  /\ variant = "js"
       => /\ StrictlyIncreasing(Indices(experiences))
          /\ \A n \in DOMAIN experiences :
               experiences[n].index < Len(experienceItems)
          /\ \A n \in DOMAIN allResults.profiles :
               StrictlyIncreasing(Indices(allResults.profiles[n].experiences))
  /\ variant = "ts"
       => /\ StrictlyIncreasing(origin)
          /\ Len(origin) = Len(tsExperienceData)
          /\ \A k \in DOMAIN origin :
               LET jobTitleElement == ContentOf(origin[k] + 1).role
               IN  tsExperienceData[k].TitreDuPoste =
                     IF jobTitleElement # Null
                     THEN Trim(jobTitleElement[1]) ELSE <<>>

\* A section of three items, the first skipped, a read of a later one
\* rejected, two records out.
C10_Witness ==
  /\ variant = "js" /\ pc = "return"
  /\ Len(experienceItems) = 3
  /\ Indices(experiences) = <<1, 2>>
  /\ threw # {}

\* --------------------------------------------------------------------- C11
\* t holds the text d somewhere.
Contains(t, d) == \E k \in 1..Len(t) : StartsWith(SubSeq(t, k, Len(t)), d)

\* The text of t before the first occurrence of d (all of t when there is none).
RECURSIVE BeforeFirst(_, _)
BeforeFirst(t, d) ==
  IF t = <<>> \/ StartsWith(t, d) THEN <<>>
  ELSE <<Head(t)>> \o BeforeFirst(Tail(t), d)

\* The whole text of t after the first occurrence of d.
AfterFirst(t, d) == SubSeq(t, Len(BeforeFirst(t, d)) + Len(d) + 1, Len(t))

\* The detail fragments scraper.js reads for item i.
FragmentsJS(i) == ReadTexts(ContentOf(i + 1).details)

\* C11 (scraper.js, organization/position split), as claimed: for every record
\* whose detail read succeeded with a non-empty first fragment f: when f holds
\* the delimiter " · ", company is the text before its first occurrence and
\* position the entire text after that first occurrence (for "a · b · c":
\* "b · c"), both trimmed; when f holds no delimiter, company is f and
\* position is null.  Stated for the runs in which no call rejects.
C11_SplitOnFirst ==
  (variant = "js" /\ faults = 0)
    => \A n \in DOMAIN experiences :
         LET i  == experiences[n].index
             fr == FragmentsJS(i)
         IN  (~Failed(i) /\ Len(fr) >= 1)
               => IF Contains(fr[1], Delimiter)
                  THEN /\ experiences[n].company =
                            Some(Trim(BeforeFirst(fr[1], Delimiter)))
                       /\ experiences[n].position =
                            Some(Trim(AfterFirst(fr[1], Delimiter)))
                  ELSE /\ experiences[n].company = Some(fr[1])
                       /\ experiences[n].position = Null

\* --------------------------------------------------------------------- C12
\* The ordered fragments of a list of elements: scraper.js keeps the trimmed
\* texts that are not empty, the TypeScript variant the trimmed text of every
\* element.
FragmentsOfJS(elements) == ReadTexts(elements)
FragmentsOfTS(elements) == [k \in DOMAIN elements |-> TextOf(elements[k])]

\* The detail mapping by count, on the record scraper.js pushed for the item.
DetailMappingJS ==
  (variant = "js" /\ pc = "f_done")
    => LET rec == experiences[1]
           fr  == FragmentsOfJS(loneItem.details)
           n   == Len(fr)
       IN  /\ n = 0 => rec.company = Null /\ rec.position = Null
           /\ n >= 1 => rec.company = Some(Trim(BeforeFirst(fr[1], Delimiter)))
           /\ rec.duration = IF n >= 2 THEN Some(fr[2]) ELSE Null
           /\ rec.location = IF n >= 3 THEN Some(fr[3]) ELSE Null
           /\ rec.role = Null /\ rec.index = 0 /\ rec.has_children = FALSE

\* Every element of the list holds some text.
AllText(elements) == \A k \in DOMAIN elements : TextOf(elements[k]) # <<>>

\* The detail mapping by count, on the row the TypeScript variant pushed for
\* an item whose detail elements all hold text.
DetailMappingTS ==
  (variant = "ts" /\ pc = "f_done" /\ AllText(loneItem.details))
    => LET row == tsExperienceData[1]
           fr  == FragmentsOfTS(loneItem.details)
           n   == Len(fr)
       IN  /\ row.EntrepriseEtTypeDEmploi = IF n >= 1 THEN fr[1] ELSE <<>>
           /\ row.DatesEtDuree = IF n >= 2 THEN fr[2] ELSE <<>>
           /\ row.Lieu = IF n >= 3 THEN fr[3] ELSE <<>>
           /\ row.TitreDuPoste = <<>>

\* C12 (both variants, detail fragments by count), as claimed: for a fragment
\* sequence of length n, n = 0 leaves organization, date range and location
\* empty; n >= 1 fills the organization from fragment[0]; date range is
\* fragment[1] exactly when n >= 2 and location fragment[2] exactly when
\* n >= 3; a fragment of index > 2 changes nothing.
C12_DetailMapping == DetailMappingJS /\ DetailMappingTS

\* --------------------------------------------------------------------- C13
\* The description/skills mapping by count, on the record scraper.js pushed.
DescriptionMappingJS ==
  (variant = "js" /\ pc = "f_done")
    => LET rec == experiences[1]
           fr  == FragmentsOfJS(loneItem.descs)
           n   == Len(fr)
       IN  /\ rec.description = IF n >= 2 THEN Some(fr[1]) ELSE Null
           /\ rec.skills = IF n >= 1 THEN Some(fr[n]) ELSE Null

\* The description/skills mapping by count, on the row the TypeScript variant
\* pushed for an item whose description elements all hold text; its null is
\* the text "null".
DescriptionMappingTS ==
  (variant = "ts" /\ pc = "f_done" /\ AllText(loneItem.descs))
    => LET row == tsExperienceData[1]
           fr  == FragmentsOfTS(loneItem.descs)
           n   == Len(fr)
       IN  /\ row.Description = IF n >= 2 THEN fr[1] ELSE NullText
           /\ row.Competences = IF n >= 1 THEN fr[n] ELSE NullText

\* C13 (both variants, description fragments by count), as claimed: for a
\* fragment sequence of length n, n = 0 gives description and skills null;
\* n = 1 gives description null and skills = fragment[0]; n >= 2 gives
\* description = fragment[0] and skills = the last fragment, the fragments in
\* between being in neither field.
C13_DescriptionMapping == DescriptionMappingJS /\ DescriptionMappingTS

\* --------------------------------------------------------------------- C14
\* C14 (both variants, the run always emits its result), as claimed: a run
\* that got past start-up and has come to its end has written the output file
\* with whatever it accumulated, the case of no record at all included.
\* Stated for the runs in which no call rejects.
C14_AlwaysEmits ==
  /\ (variant = "js" /\ pc = "done" /\ faults = 0)
       => resultsFile = Some(allResults)
  /\ (variant = "ts" /\ pc = "done" /\ faults = 0)
       => outputFile = Some([Experience |-> allExperienceData,
                             Education |-> allEducationData])

\* --------------------------------------------------------------------- C15
\* Loading the configuration or launching the browser fails in this step.
StartupFails == pc \in {"loadConfig", "launch"} /\ pc' = "exit"

\* C15 (both variants, fatal start-up errors), as claimed: when loading the
\* configuration or launching the browser fails, the process ends with a
\* non-zero exit status, with no item extracted and no output file written.
C15_FatalStartup ==
  [][StartupFails =>
       /\ exitCode' # 0
       /\ resultsFile' = Null /\ outputFile' = Null
       /\ allResults'.profiles = <<>> /\ experiences' = <<>>
       /\ allExperienceData' = <<>> /\ tsExperienceData' = <<>>]_vars

\* --------------------------------------------------------------------- C16
\* C16 (scraper.js, stop is one-way): once scraperStopped is true it stays
\* true whatever key is pressed and whatever the program does, and from then
\* on no item begins processing and no section is entered: the next poll
\* leaves the loop.
C16_StopOneWay ==
  [][variant = "js" =>
       /\ scraperStopped => scraperStopped'
       /\ (scraperStopped /\ pc' # pc) => pc' \notin {"children", "enumerate"}]_vars

\* The flag was set after the first of three items of A; the item loop and
\* then the loop over the targets were left, with B not entered.
C16_Witness ==
  /\ variant = "js" /\ pc = "close" /\ scraperStopped
  /\ stopAt.pc = "item_loop" /\ stopAt.url = 1 /\ stopAt.idx = 1
  /\ Len(dom) = 3
  /\ Len(allResults.profiles) = 1
  /\ allResults.profiles[1].total_experiences <= 1

\* --------------------------------------------------------------------- C17
\* The positions of main from the loop over the targets onwards.
ExtractingJS ==
  {"main_loop", "enumerate", "item_loop", "children", "role", "details",
   "skills", "return", "close", "save", "done"}
ExtractingTS ==
  {"profile", "exp_goto", "exp_enum", "isChild", "hasChildren", "title",
   "details", "description", "exp_done", "edu_goto", "edu_enum", "edu_item",
   "edu_done", "export", "close", "done"}

\* C17 (both variants, start gate): main is in the loop over the targets, in
\* an item enumeration or in the processing of an item only in states where
\* the start signal is set, and nothing is extracted before it is set.
C17_StartGate ==
  /\ (variant = "js" /\ pc \in ExtractingJS) => scraperStarted
  /\ (variant = "ts" /\ pc \in ExtractingTS) => scrapingEnabled
  /\ (variant = "js" /\ ~scraperStarted)
       => experiences = <<>> /\ allResults.profiles = <<>> /\ resultsFile = Null
  /\ (variant = "ts" /\ ~scrapingEnabled)
       => tsExperienceData = <<>> /\ allExperienceData = <<>> /\ outputFile = Null

\* The TypeScript variant has passed the gate and stands before the item
\* enumeration of the first profile.
C17_Witness ==
  /\ variant = "ts" /\ pc = "exp_enum" /\ url = 1 /\ scrapingEnabled

\* --------------------------------------------------------------------- C18
\* The keys of a record of scraper.js and of a row of the TypeScript variant.
RecordKeys ==
  {"index", "role", "company", "position", "duration", "location",
   "description", "skills", "has_children"}
RowKeys ==
  {"Profil", "TitreDuPoste", "EntrepriseEtTypeDEmploi", "DatesEtDuree", "Lieu",
   "Description", "Competences"}

\* The record has every key, each text field holding null or one text.
WholeRecord(rec) ==
  /\ DOMAIN rec = RecordKeys
  /\ rec.index \in Nat /\ rec.has_children \in BOOLEAN
  /\ \A k \in RecordKeys \ {"index", "has_children"} :
       rec[k] = Null \/ (Len(rec[k]) = 1 /\ DOMAIN rec[k][1] = 1..Len(rec[k][1]))

\* The row has every key, each holding a text (the empty text and "null" are
\* its sentinels).
WholeRow(row) ==
  /\ DOMAIN row = RowKeys
  /\ row.Profil \in Range(Urls)
  /\ \A k \in RowKeys \ {"Profil"} : DOMAIN row[k] = 1..Len(row[k])

\* C18 (both variants, all keys present): every record of a section output,
\* of an entry of the run result and of the written file has every key of its
\* type, each holding extracted text or the null sentinel; so has the record
\* pushed by the catch of an item that failed part-way.
C18_AllKeys ==
  /\ variant = "js"
       => /\ \A n \in DOMAIN experiences : WholeRecord(experiences[n])
          /\ \A p \in DOMAIN allResults.profiles :
               \A n \in DOMAIN allResults.profiles[p].experiences :
                 WholeRecord(allResults.profiles[p].experiences[n])
          /\ resultsFile # Null
               => \A p \in DOMAIN resultsFile[1].profiles :
                    \A n \in DOMAIN resultsFile[1].profiles[p].experiences :
                      WholeRecord(resultsFile[1].profiles[p].experiences[n])
  /\ variant = "ts"
       => /\ \A n \in DOMAIN tsExperienceData : WholeRow(tsExperienceData[n])
          /\ \A n \in DOMAIN allExperienceData : WholeRow(allExperienceData[n])
          /\ outputFile # Null
               => \A n \in DOMAIN outputFile[1].Experience :
                    WholeRow(outputFile[1].Experience[n])

\* The written file holds the record of an item whose children query
\* rejected: all keys, every text field null.
C18_Witness ==
  /\ variant = "js" /\ pc = "done"
  /\ \E p \in DOMAIN resultsFile[1].profiles :
       \E n \in DOMAIN resultsFile[1].profiles[p].experiences :
         LET rec == resultsFile[1].profiles[p].experiences[n]
         IN  rec = NewExperienceData(rec.index) /\ ContentOf(rec.index + 1).role # Null

\* --------------------------------------------------------------------- C19
\* The awaits inside the processing of an item.
InItem == {"children", "role", "details", "skills"}

\* The stop flag was set while item stopAt.idx of target stopAt.url was
\* being processed.
StoppedInItem == variant = "js" /\ stopAt.pc \in InItem

\* C19 (scraper.js, stop is not pre-emptive): when the stop flag is set while
\* item k of target t is being processed, the section returns normally with
\* exactly the records of the non-skipped items of index <= k; the entry
\* pushed for t has success=true and those records; no later target gets an
\* entry; and the file written at the end holds these entries.
C19_StopDrains ==
  /\ [](StoppedInItem =>
          /\ (pc = "return" /\ url = stopAt.url)
               => /\ ~raised
                  /\ Range(Indices(experiences)) =
                       { i \in 0..stopAt.idx : ~SkippedJS(i) }
          /\ \A n \in DOMAIN allResults.profiles :
               UrlIndex(allResults.profiles[n].url) <= stopAt.url
          /\ pc \in InItem \cup {"item_loop", "return"} => url = stopAt.url
          /\ pc = "done" => resultsFile = Some(allResults))
  /\ [][(StoppedInItem /\ pc = "return") =>
          \/ pc' = "exit"
          \/ pc' = "return"
          \/ allResults'.profiles =
               Append(allResults.profiles,
                      [url |-> Urls[stopAt.url], success |-> TRUE,
                       experiences |-> experiences,
                       total_experiences |-> Len(experiences),
                       error |-> Null])]_vars

\* The flag was set while the details of the first of two items of A were
\* read: results.json holds one entry, A's, with that one record.
C19_Witness ==
  /\ variant = "js" /\ pc = "done"
  /\ stopAt.pc = "details" /\ stopAt.url = 1 /\ stopAt.idx = 0
  /\ dom = <<0, 0>>
  /\ pages[2] = "ok"
  /\ Len(resultsFile[1].profiles) = 1
  /\ resultsFile[1].profiles[1].success
  /\ Indices(resultsFile[1].profiles[1].experiences) = <<0>>

\* --------------------------------------------------------------------- C20
\* C20 (scraper.js, stop only after start): in every state scraperStopped
\* implies scraperStarted.
C20_StoppedImpliesStarted ==
  variant = "js" => (scraperStopped => scraperStarted)

\* "s" was pressed twice while main still waited for the start.
C20_Witness ==
  /\ variant = "js" /\ pc = "waitForStart"
  /\ scraperStarted /\ scraperStopped

\* --------------------------------------------------------------------- C21
\* One entry of the run result is well formed.
WellFormedEntry(e) ==
  /\ e.total_experiences = Len(e.experiences)
  /\ e.success => e.error = Null
  /\ ~e.success => (e.error # Null /\ e.experiences = <<>> /\ e.total_experiences = 0)
  /\ e.url \in Range(Urls)

\* A run result is well formed: its entries are, and its profiles are a
\* sub-list of config.urls in the order of config.urls, no longer than
\* total_profiles.
WellFormedResults(res) ==
  /\ \A n \in DOMAIN res.profiles : WellFormedEntry(res.profiles[n])
  /\ \A a, b \in DOMAIN res.profiles :
       a < b => UrlIndex(res.profiles[a].url) < UrlIndex(res.profiles[b].url)
  /\ res.total_profiles = NumUrls
  /\ Len(res.profiles) <= res.total_profiles

\* C21 (scraper.js, entries well formed): in the run result being built and
\* in the written results.json, every entry has total_experiences equal to
\* the number of its records, success=true with error=null or success=false
\* with a non-null error and no record, and the entries follow the order of
\* config.urls, at most total_profiles of them; the entry pushed for a target
\* is the one scrapeProfile builds from the section list.
C21_WellFormedEntries ==
  /\ [](variant = "js" =>
          /\ WellFormedResults(allResults)
          /\ resultsFile # Null => WellFormedResults(resultsFile[1]))
  /\ [][(variant = "js" /\ pc = "return" /\ pc' = "main_loop") =>
          /\ Len(allResults'.profiles) = Len(allResults.profiles) + 1
          /\ LET e == allResults'.profiles[Len(allResults'.profiles)]
             IN  /\ e.url = Urls[url]
                 /\ e.experiences = experiences
                 /\ e.total_experiences = Len(experiences)]_vars

\* results.json holds the entries of A and B, A's with two records and B's,
\* whose page did not load, with none.
C21_Witness ==
  /\ variant = "js" /\ pc = "done"
  /\ Len(resultsFile[1].profiles) = 2
  /\ resultsFile[1].profiles[1].total_experiences = 2
  /\ resultsFile[1].profiles[2].total_experiences = 0
  /\ pages[2] = "timeout"

\* --------------------------------------------------------------------- C22
\* The record was built from the item of ordinal rec.index: what it holds of
\* role, company, duration and skills is what that item shows.
BuiltFromItem(rec) ==
  LET full == FullRecordJS(rec.index)
  IN  /\ rec.role \in {Null, full.role}
      /\ rec.company \in {Null, full.company}
      /\ rec.duration \in {Null, full.duration}
      /\ rec.skills \in {Null, full.skills}

\* A list of records of one section: has_children false everywhere, each
\* record built from the item of its index, the index values increasing.
FlatRecords(list) ==
  /\ \A n \in DOMAIN list : ~list[n].has_children /\ BuiltFromItem(list[n])
  /\ StrictlyIncreasing(Indices(list))

\* C22 (scraper.js, no record of an item with children): every record of a
\* section list, of an entry and of the written file has has_children=false
\* and the index of the item it was built from, the index values of a list
\* increasing; and an item whose has_children was set to true has no record in
\* the list, whatever calls reject.
C22_NoRecordWithChildren ==
  variant = "js"
    => /\ FlatRecords(experiences)
       /\ \A n \in DOMAIN experiences :
            experiences[n].index < Len(experienceItems)
       /\ \A p \in DOMAIN allResults.profiles :
            FlatRecords(allResults.profiles[p].experiences)
       /\ resultsFile # Null
            => \A p \in DOMAIN resultsFile[1].profiles :
                 FlatRecords(resultsFile[1].profiles[p].experiences)
       /\ \A i \in 0..(Len(experienceItems) - 1) :
            (SkippedJS(i) /\ (i < idx \/ pc = "return"))
              => i \notin Range(Indices(experiences))
       /\ experienceData.has_children
            => experienceData.index \notin Range(Indices(experiences))

\* The first item holds the two others and was left out; a call of the second
\* rejected; the section list holds the records of the second and the third.
C22_Witness ==
  /\ variant = "js" /\ pc = "item_loop" /\ idx = 3
  /\ experienceItems = <<0, 1, 1>>
  /\ experienceData.index = 2
  /\ Indices(experiences) = <<1, 2>>
  /\ \E e \in threw : e[1] = 1

====
